---------------------------- MODULE Spec2Model ----------------------------
(***************************************************************************)
(* A model of src/index.js, the action that turns the CMake file-API reply *)
(* of a configured build tree into one cl.exe /analyze invocation per      *)
(* source file and runs them.                                              *)
(*                                                                         *)
(* Strings are sequences of one-character strings, so that comparisons,    *)
(* prefixes, concatenations and tokenisation are computed as JavaScript    *)
(* computes them.  Long fixed texts (installation folders, error texts)    *)
(* are abbreviated; every abbreviation is named after the constant or the  *)
(* message it stands for.  Paths use "/" as their separator.               *)
(***************************************************************************)
EXTENDS Integers, Sequences, FiniteSets, TLC

(***************************************************************************)
(* Evaluation                                                              *)
(*                                                                         *)
(* With(e, LAMBDA x : body) is body with x standing for the value of e: a  *)
(* JavaScript const.  The value is computed once, where a LET definition   *)
(* is computed again at each of its uses.                                  *)
(***************************************************************************)

With(v, Body(_)) == CHOOSE r \in {Body(x) : x \in {v}} : TRUE

With2(v, w, Body(_, _)) == CHOOSE r \in {Body(x, y) : x \in {v}, y \in {w}} : TRUE

With3(u, v, w, Body(_, _, _)) ==
    CHOOSE r \in {Body(x, y, z) : x \in {u}, y \in {v}, z \in {w}} : TRUE

(***************************************************************************)
(* Strings                                                                 *)
(***************************************************************************)

\* The UTF-16 code unit of the characters that occur in version strings.
CharCode(c) ==
    CASE c = "-" -> 45 [] c = "." -> 46 [] c = "/" -> 47
      [] c = "0" -> 48 [] c = "1" -> 49 [] c = "2" -> 50 [] c = "3" -> 51
      [] c = "4" -> 52 [] c = "5" -> 53 [] c = "6" -> 54 [] c = "7" -> 55
      [] c = "8" -> 56 [] c = "9" -> 57
      [] OTHER -> 97

\* JavaScript's a < b on strings: the first differing code unit decides, a
\* proper prefix is smaller.
RECURSIVE StrLessFrom(_, _, _)
StrLessFrom(a, b, i) ==
    IF i > Len(b) THEN FALSE
    ELSE IF i > Len(a) THEN TRUE
    ELSE IF a[i] = b[i] THEN StrLessFrom(a, b, i + 1)
    ELSE CharCode(a[i]) < CharCode(b[i])

StrLess(a, b) == With2(a, b, LAMBDA x, y : StrLessFrom(x, y, 1))

\* String.prototype.startsWith
StartsWith(s, prefix) ==
    With2(s, prefix, LAMBDA x, y : Len(y) <= Len(x) /\ SubSeq(x, 1, Len(y)) = y)

DigitChar(d) ==
    CASE d = 0 -> "0" [] d = 1 -> "1" [] d = 2 -> "2" [] d = 3 -> "3"
      [] d = 4 -> "4" [] d = 5 -> "5" [] d = 6 -> "6" [] d = 7 -> "7"
      [] d = 8 -> "8" [] d = 9 -> "9"

\* The decimal text of a natural number, as a template literal prints it.
RECURSIVE ToDecimal(_)
ToDecimal(n) ==
    With(n, LAMBDA m : IF m < 10 THEN <<DigitChar(m)>>
                       ELSE ToDecimal(m \div 10) \o <<DigitChar(m % 10)>>)

\* String.prototype.trim, for the blank character.
RECURSIVE TrimLeft(_)
TrimLeft(s) ==
    With(s, LAMBDA x : IF x # <<>> /\ x[1] = " " THEN TrimLeft(Tail(x)) ELSE x)

RECURSIVE TrimRight(_)
TrimRight(s) ==
    With(s, LAMBDA x : IF x # <<>> /\ x[Len(x)] = " "
                         THEN TrimRight(SubSeq(x, 1, Len(x) - 1)) ELSE x)

Trim(s) == TrimRight(TrimLeft(s))

\* The k-th smallest element of a set of numbers.
NthOf(S, k) == CHOOSE i \in S : Cardinality({j \in S : j < i}) = k - 1

\* String.prototype.split for a one-character separator: the pieces between
\* the start, the occurrences of the separator and the end.
Split(s, sep) ==
    With(s, LAMBDA x :
      With({i \in 1..Len(x) : x[i] = sep}, LAMBDA seps :
        [k \in 1..(Cardinality(seps) + 1) |->
           SubSeq(x,
                  IF k = 1 THEN 1 ELSE NthOf(seps, k - 1) + 1,
                  IF k = Cardinality(seps) + 1 THEN Len(x) ELSE NthOf(seps, k) - 1)]))

\* Array.prototype.join
RECURSIVE JoinWith(_, _)
JoinWith(parts, sep) ==
    With(parts, LAMBDA ps :
      IF ps = <<>> THEN <<>>
      ELSE IF Len(ps) = 1 THEN ps[1]
      ELSE ps[1] \o sep \o JoinWith(Tail(ps), sep))

\* Array.prototype.filter and the concatenation of a sequence of sequences.
RECURSIVE Flatten(_)
Flatten(ss) ==
    With(ss, LAMBDA xs : IF xs = <<>> THEN <<>> ELSE xs[1] \o Flatten(Tail(xs)))

Range(s) == With(s, LAMBDA x : {x[i] : i \in DOMAIN x})

(***************************************************************************)
(* Paths (node's path module)                                              *)
(***************************************************************************)

IsAbsolute(p) == p # <<>> /\ p[1] = "/"

\* The components of a path with "", "." and ".." resolved.
RECURSIVE NormalizeParts(_, _, _)
NormalizeParts(parts, abs, acc) ==
    With2(parts, acc, LAMBDA ps, done :
      IF ps = <<>> THEN done
      ELSE LET c == ps[1]
               rest == Tail(ps)
           IN  IF c = <<>> \/ c = <<".">> THEN NormalizeParts(rest, abs, done)
               ELSE IF c = <<".", ".">>
                 THEN IF done # <<>> /\ done[Len(done)] # <<".", ".">>
                        THEN NormalizeParts(rest, abs, SubSeq(done, 1, Len(done) - 1))
                      ELSE IF abs THEN NormalizeParts(rest, abs, done)
                      ELSE NormalizeParts(rest, abs, Append(done, c))
               ELSE NormalizeParts(rest, abs, Append(done, c)))

\* path.normalize
Normalize(path) ==
    With(path, LAMBDA p :
      IF p = <<>> THEN <<".">>
      ELSE With(JoinWith(NormalizeParts(Split(p, "/"), IsAbsolute(p), <<>>), <<"/">>),
                LAMBDA body :
                  LET abs == IsAbsolute(p)
                      trailing == p[Len(p)] = "/"
                      rel == IF body = <<>> /\ ~abs THEN <<".">> ELSE body
                      withSep == IF body # <<>> /\ trailing THEN rel \o <<"/">> ELSE rel
                  IN  IF abs THEN <<"/">> \o withSep ELSE withSep))

\* path.join of two segments
PathJoin(a, b) ==
    With2(a, b, LAMBDA x, y :
      IF x = <<>> /\ y = <<>> THEN <<".">>
      ELSE IF x = <<>> THEN Normalize(y)
      ELSE IF y = <<>> THEN Normalize(x)
      ELSE Normalize(x \o <<"/">> \o y))

RECURSIVE StripTrailingSeps(_)
StripTrailingSeps(path) ==
    With(path, LAMBDA p :
      IF Len(p) > 1 /\ p[Len(p)] = "/" THEN StripTrailingSeps(SubSeq(p, 1, Len(p) - 1))
      ELSE p)

\* The index of the last separator of p, 0 when it has none.
LastSep(p) ==
    With({0} \cup {i \in 1..Len(p) : p[i] = "/"}, LAMBDA seps :
      CHOOSE i \in seps : \A j \in seps : j <= i)

\* path.basename
Basename(p) ==
    With(StripTrailingSeps(p), LAMBDA q :
      IF q = <<"/">> THEN <<>> ELSE SubSeq(q, LastSep(q) + 1, Len(q)))

\* path.dirname
Dirname(p) ==
    With(StripTrailingSeps(p), LAMBDA q :
      With(LastSep(q), LAMBDA k :
        IF k = 0 THEN <<".">>
        ELSE IF k = 1 THEN <<"/">>
        ELSE StripTrailingSeps(SubSeq(q, 1, k - 1))))

\* path.extname(name).toLowerCase() == '.sarif', for the names of the model
\* (lower case only).
HasSarifExt(name) ==
    With(name, LAMBDA n :
      Len(n) > 6 /\ SubSeq(n, Len(n) - 5, Len(n)) = <<".", "s", "a", "r", "i", "f">>)


(***************************************************************************)
(* toolrunner.argStringToArray (@actions/exec), used at lines 459 and 567  *)
(***************************************************************************)

RECURSIVE ArgScan(_, _, _, _, _, _)
ArgScan(s, i0, inQuotes, escaped, arg0, args0) ==
    With3(i0, arg0, args0, LAMBDA i, arg, args :
    IF i > Len(s)
      THEN IF arg # <<>> THEN Append(args, Trim(arg)) ELSE args
    ELSE LET c == s[i]
             appended == (IF escaped /\ c # "\"" THEN Append(arg, "\\") ELSE arg) \o <<c>>
         IN  IF c = "\""
               THEN IF ~escaped THEN ArgScan(s, i + 1, ~inQuotes, escaped, arg, args)
                    ELSE ArgScan(s, i + 1, inQuotes, FALSE, appended, args)
             ELSE IF c = "\\" /\ escaped
               THEN ArgScan(s, i + 1, inQuotes, FALSE, appended, args)
             ELSE IF c = "\\" /\ inQuotes
               THEN ArgScan(s, i + 1, inQuotes, TRUE, arg, args)
             ELSE IF c = " " /\ ~inQuotes
               THEN IF arg # <<>> THEN ArgScan(s, i + 1, inQuotes, escaped, <<>>, Append(args, arg))
                    ELSE ArgScan(s, i + 1, inQuotes, escaped, arg, args)
             ELSE ArgScan(s, i + 1, inQuotes, FALSE, appended, args))

ArgStringToArray(argString) ==
    With(argString, LAMBDA s : ArgScan(s, 1, FALSE, FALSE, <<>>, <<>>))

(***************************************************************************)
(* Fixed texts of index.js                                                 *)
(***************************************************************************)

\* '..\\..\\..\\..\\..\\..\\..\\..\\Team Tools\\Static Analysis Tools\\Rule Sets':
\* eight levels up from cl.exe, then the rule sets folder, abbreviated "R".
RelativeRulesetPath ==
    <<".", ".", "/", ".", ".", "/", ".", ".", "/", ".", ".", "/",
      ".", ".", "/", ".", ".", "/", ".", ".", "/", ".", ".", "/", "R">>

\* '..\\..\\..\\..'
RelativeToolsetPath ==
    <<".", ".", "/", ".", ".", "/", ".", ".", "/", ".", ".">>

\* '..\\..\\..\\..\\..\\..\\..\\Auxiliary\\Build\\vcvarsall.bat': seven levels
\* up from cl.exe, then the script, abbreviated "A".
RelativeCommandPromptPath ==
    <<".", ".", "/", ".", ".", "/", ".", ".", "/", ".", ".", "/",
      ".", ".", "/", ".", ".", "/", ".", ".", "/", "A">>

\* The minimum CMake version the reply index is compared with.
MinCMakeVersion == <<"3", ".", "2", "0", ".", "5">>

\* ".cmake/api/v1", abbreviated.
ApiDirName == <<".", "c">>

\* "query/client-msvc-ca-action", abbreviated.
QueryDirName == <<"q">>

\* "query.json", abbreviated.
QueryFileName == <<"q", ".", "j">>

\* 'EspXEngine.dll', abbreviated.
EspXEngineName == <<"E">>

HostX86 == <<"H", "o", "s", "t", "x", "8", "6">>

HostX64 == <<"H", "o", "s", "t", "x", "6", "4">>

X86 == <<"x", "8", "6">>

X64 == <<"x", "6", "4">>

TrueText == <<"t", "r", "u", "e">>

FalseText == <<"f", "a", "l", "s", "e">>

\* The flags of the template literals; "/analyze" is abbreviated "/a",
\* "/external" "/ext", "format" "f" and "rulesetdirectory" "rulesetdir".
FlagAnalyzeOnly == <<"/", "a", ":", "o", "n", "l", "y">>

FlagAnalyzeQuiet == <<"/", "a", ":", "q", "u", "i", "e", "t">>

FlagAnalyzeSarif == <<"/", "a", ":", "l", "o", "g", ":", "f", ":", "s", "a", "r", "i", "f">>

FlagPlugin == <<"/", "a", ":", "p", "l", "u", "g", "i", "n">>

FlagRuleset == <<"/", "a", ":", "r", "u", "l", "e", "s", "e", "t">>

FlagRulesetDirectory == <<"/", "a", ":", "r", "u", "l", "e", "s", "e", "t", "d", "i", "r">>

FlagExternalW0 == <<"/", "e", "x", "t", ":", "W", "0">>

FlagAnalyzeExternalOff == <<"/", "a", ":", "e", "x", "t", "-">>

FlagExternalInclude == <<"/", "e", "x", "t", ":", "I">>

FlagInclude == <<"/", "I">>

FlagDefine == <<"/", "D">>

FlagAnalyzeLog == <<"/", "a", ":", "l", "o", "g">>

SarifExt == <<".", "s", "a", "r", "i", "f">>

(***************************************************************************)
(* State                                                                   *)
(***************************************************************************)

VARIABLES
    inputs,           \* the action's inputs (INPUT_* of the environment)
    workspace,        \* process.env.GITHUB_WORKSPACE
    ambient,          \* process.env: CAExcludePath, INCLUDE, LIB
    dirs,             \* the directories that exist
    files,            \* the files that exist
    cmake,            \* what cmake does on this build tree, and the reply it writes
    vcvars,           \* what vc_env.bat does: exit code and standard output
    pc,               \* where main is
    error,            \* the error main caught, "none" while there is none
    failed,           \* core.setFailed was called
    buildDir,         \* main's buildDir
    resultsDir,       \* main's resultsDir
    options,          \* main's CompilerCommandOptions
    replyIndexInfo,   \* createAnalysisCommands' replyIndexInfo
    toolchainMap,     \* createAnalysisCommands' toolchainMap, in insertion order
    compileCommands,  \* createAnalysisCommands' compileCommands
    commonArgsMap,    \* compiler path -> common arguments
    commonEnvMap,     \* compiler path -> environment object
    analyzeCommands,  \* the plan
    cursor,           \* the index of the running loop
    effects,          \* what the run has done to the outside, in order
    attempts,         \* the analyzer invocations, in order
    computed,         \* the executions of lines 558-559, in order
    analyzer,         \* the outcomes an analyzer invocation can have
    warnings          \* core.warning calls, in order

vars ==
    <<inputs, workspace, ambient, dirs, files, cmake, vcvars, pc, error, failed,
      buildDir, resultsDir, options, replyIndexInfo, toolchainMap, compileCommands,
      commonArgsMap, commonEnvMap, analyzeCommands, cursor, effects, attempts,
      computed, analyzer, warnings>>

\* What the run never changes.
world == <<inputs, workspace, ambient, cmake, vcvars, analyzer>>

(***************************************************************************)
(* Inputs and the file system                                              *)
(***************************************************************************)

\* core.getInput(name): the value of the input, trimmed, '' when it is not set.
GetInput(name) == Trim(inputs[name])

\* core.getInput(text) where text is an entry of a path list: line 83 hands
\* each entry to resolveInputPath, which reads it as the NAME of an input.  The
\* environment holds no input of that name (the entries of the model are paths
\* and spell none of the action's inputs).
GetInputByText(text) == <<>>

\* fs.existsSync
Exists(path) ==
    With(path, LAMBDA p :
      p # <<>> /\ StripTrailingSeps(Normalize(p)) \in (dirs \cup files))

\* fs.readdirSync: the entries of a directory.
ReadDir(dir) ==
    With(StripTrailingSeps(Normalize(dir)), LAMBDA d :
      {p \in (dirs \cup files) : p # d /\ Dirname(p) = d})

\* A directory and all its ancestors (mkdir -p, fs.mkdirSync recursive).
RECURSIVE WithAncestors(_)
WithAncestors(dir) ==
    With(dir, LAMBDA d :
      IF d = <<"/">> \/ d = <<".">> THEN {} ELSE {d} \cup WithAncestors(Dirname(d)))

\* isDirectoryEmpty
IsDirectoryEmpty(buildRoot) ==
    With(buildRoot, LAMBDA d : d = <<>> \/ ~Exists(d) \/ ReadDir(d) = {})

\* isSubdirectory
IsSubdirectory(parentDir, subDir) ==
    StartsWith(Normalize(subDir), Normalize(parentDir))

\* getRelativeTo
GetRelativeTo(fromPath, relativePath) == Normalize(PathJoin(fromPath, relativePath))

\* resolveInputPath, after core.getInput returned inputPath: whether it throws
ResolveInputPathThrows(inputPath, required) == inputPath = <<>> /\ required

\* resolveInputPath, after core.getInput returned inputPath: what it returns
ResolveInputPathValue(inputPath) ==
    With(inputPath, LAMBDA p : IF IsAbsolute(p) THEN p ELSE PathJoin(workspace, p))

\* resolveInputPaths (never called with required)
ResolveInputPaths(name) ==
    With(GetInput(name), LAMBDA inputPaths :
      IF inputPaths = <<>> THEN <<>>
      ELSE With(Split(inputPaths, ";"), LAMBDA entries :
             Flatten([i \in DOMAIN entries |->
                        With(ResolveInputPathValue(GetInputByText(entries[i])),
                             LAMBDA resolved :
                               IF resolved # <<>> THEN <<resolved>> ELSE <<>>)])))

(***************************************************************************)
(* The reply of the CMake file API                                         *)
(***************************************************************************)

\* indexReply.cmake.version.string, as cmake prints major.minor.patch
VersionString(v) ==
    ToDecimal(v[1]) \o <<".">> \o ToDecimal(v[2]) \o <<".">> \o ToDecimal(v[3])

\* The test of line 218.
VersionUnsupported(version) == StrLess(version, MinCMakeVersion)

\* new ToolchainInfo(toolchain): whether its switch throws (line 259)
ToolchainLayoutUnknown(toolchain) ==
    Basename(Dirname(Dirname(toolchain.path))) \notin {HostX86, HostX64}

\* new ToolchainInfo(toolchain): the object, for a known layout
ToolchainInfo(toolchain) ==
    With(toolchain, LAMBDA t :
      [language |-> t.language,
       path |-> t.path,
       version |-> t.version,
       includes |-> [i \in DOMAIN t.implicit |->
                       [path |-> t.implicit[i], isSystem |-> TRUE]],
       toolsetVersion |-> Basename(GetRelativeTo(t.path, RelativeToolsetPath)),
       targetArch |-> Basename(Dirname(t.path)),
       hostArch |-> IF Basename(Dirname(Dirname(t.path))) = HostX86 THEN X86 ELSE X64])

\* Array.prototype.find: the first MSVC toolchain of a language, as a sequence
\* of no or one element.
RECURSIVE FindToolchain(_, _)
FindToolchain(toolchains, language) ==
    With(toolchains, LAMBDA ts :
      IF ts = <<>> THEN <<>>
      ELSE IF ts[1].language = language /\ ts[1].id = "MSVC" THEN <<ts[1]>>
      ELSE FindToolchain(Tail(ts), language))

\* toolchainMap[command.language], as a sequence of no or one element
RECURSIVE ToolchainOf(_, _)
ToolchainOf(map, language) ==
    With(map, LAMBDA m :
      IF m = <<>> THEN <<>>
      ELSE IF m[1].language = language THEN <<m[1]>>
      ELSE ToolchainOf(Tail(m), language))

\* new CompileCommand(group, source)
CompileCommand(group, source) ==
    [source |-> source,
     language |-> group.language,
     args |-> JoinWith(group.fragments, <<" ">>),
     includes |-> group.includes,
     defines |-> group.defines]

\* The compile commands of one target: one per source of each compile group.
TargetCommands(sourceRoot, target) ==
    With(target.groups, LAMBDA groups :
      Flatten([g \in DOMAIN groups |->
                 [k \in DOMAIN groups[g].sources |->
                    CompileCommand(groups[g], PathJoin(sourceRoot, groups[g].sources[k]))]]))

\* The test of line 335.
TargetExcluded(excludedTargetPaths, targetDir) ==
    With2(excludedTargetPaths, targetDir, LAMBDA ex, dir :
      \E i \in DOMAIN ex : IsSubdirectory(ex[i], dir))

\* The loop of loadCompileCommands over the targets.
RECURSIVE CommandsOfTargets(_, _, _)
CommandsOfTargets(sourceRoot, targets, excludedTargetPaths) ==
    With(targets, LAMBDA ts :
      IF ts = <<>> THEN <<>>
      ELSE (IF TargetExcluded(excludedTargetPaths, PathJoin(sourceRoot, ts[1].source))
              THEN <<>>
              ELSE TargetCommands(sourceRoot, ts[1]))
           \o CommandsOfTargets(sourceRoot, Tail(ts), excludedTargetPaths))

(***************************************************************************)
(* Per-toolchain arguments and environment                                 *)
(***************************************************************************)

\* findEspXEngine: the path it looks for
EspXEnginePath(toolchain) ==
    PathJoin(PathJoin(Dirname(Dirname(toolchain.path)), toolchain.hostArch), EspXEngineName)

\* findRulesetDirectory: << >> is undefined
FindRulesetDirectory(toolchain) ==
    With(GetRelativeTo(toolchain.path, RelativeRulesetPath), LAMBDA rulesetDirectory :
      IF Exists(rulesetDirectory) THEN <<rulesetDirectory>> ELSE <<>>)

\* What findRuleset returns (value << >> is undefined) or throws (error).
Found(value) == [error |-> "none", value |-> value, warned |-> FALSE]

NotFound(warned) == [error |-> "RulesetNotFound", value |-> <<>>, warned |-> warned]

\* A findRuleset that searches the official directory before the repository:
\* the order the precedence property of the ruleset search rules out.
FindRulesetOfficialFirst(rulesetDirectory) ==
    With2(ResolveInputPathValue(GetInput("ruleset")), GetInput("ruleset"),
          LAMBDA repoRulesetPath, rulesetPath :
      IF repoRulesetPath = <<>> THEN Found(<<>>)
      ELSE IF rulesetDirectory # <<>>
                /\ Exists(PathJoin(rulesetDirectory[1], rulesetPath))
        THEN Found(<<PathJoin(rulesetDirectory[1], rulesetPath)>>)
      ELSE IF Exists(repoRulesetPath) THEN Found(<<repoRulesetPath>>)
      ELSE NotFound(rulesetDirectory = <<>>))

\* findRuleset
FindRuleset(rulesetDirectory) ==
    With2(ResolveInputPathValue(GetInput("ruleset")), GetInput("ruleset"),
          LAMBDA repoRulesetPath, rulesetPath :
      IF repoRulesetPath = <<>> THEN Found(<<>>)
      ELSE IF Exists(repoRulesetPath) THEN Found(<<repoRulesetPath>>)
      ELSE IF rulesetDirectory # <<>>
        THEN With(PathJoin(rulesetDirectory[1], rulesetPath), LAMBDA officialRulesetPath :
               IF Exists(officialRulesetPath) THEN Found(<<officialRulesetPath>>)
               ELSE NotFound(FALSE))
      ELSE NotFound(TRUE))

\* Common arguments with the flags of external headers before the flags of
\* the ruleset: what the layout of the common flags rules out.
GetCommonAnalyzeArgumentsExternalFirst(toolchain, opts) ==
    With2(EspXEnginePath(toolchain), FindRulesetDirectory(toolchain),
          LAMBDA espXEngine, rulesetDirectory :
      IF ~Exists(espXEngine) THEN [error |-> "EspXEngineNotFound", args |-> <<>>]
      ELSE With(FindRuleset(rulesetDirectory), LAMBDA ruleset :
        IF ruleset.error # "none" THEN [error |-> ruleset.error, args |-> <<>>]
        ELSE IF opts.additionalArgs # <<>>
          THEN [error |-> "AssignmentToConstant", args |-> <<>>]
        ELSE [error |-> "none",
              args |-> <<FlagAnalyzeOnly, FlagAnalyzeQuiet, FlagAnalyzeSarif,
                         FlagPlugin \o espXEngine>>
                       \o (IF opts.ignoreSystemHeaders # <<>>
                             THEN <<FlagExternalW0, FlagAnalyzeExternalOff>>
                             ELSE <<>>)
                       \o (IF ruleset.value # <<>>
                             THEN <<FlagRuleset \o ruleset.value[1]>>
                                  \o (IF rulesetDirectory # <<>>
                                        THEN <<FlagRulesetDirectory \o rulesetDirectory[1]>>
                                        ELSE <<>>)
                             ELSE <<>>)]))

\* getCommonAnalyzeArguments: error is "none" unless it throws.  Line 459
\* assigns to args, which line 435 declares const: a TypeError.
GetCommonAnalyzeArguments(toolchain, opts) ==
    With2(EspXEnginePath(toolchain), FindRulesetDirectory(toolchain),
          LAMBDA espXEngine, rulesetDirectory :
      IF ~Exists(espXEngine) THEN [error |-> "EspXEngineNotFound", args |-> <<>>]
      ELSE With(FindRuleset(rulesetDirectory), LAMBDA ruleset :
        IF ruleset.error # "none" THEN [error |-> ruleset.error, args |-> <<>>]
        ELSE IF opts.additionalArgs # <<>>
          THEN [error |-> "AssignmentToConstant", args |-> <<>>]
        ELSE [error |-> "none",
              args |-> <<FlagAnalyzeOnly, FlagAnalyzeQuiet, FlagAnalyzeSarif,
                         FlagPlugin \o espXEngine>>
                       \o (IF ruleset.value # <<>>
                             THEN <<FlagRuleset \o ruleset.value[1]>>
                                  \o (IF rulesetDirectory # <<>>
                                        THEN <<FlagRulesetDirectory \o rulesetDirectory[1]>>
                                        ELSE <<>>)
                             ELSE <<>>)
                       \o (IF opts.ignoreSystemHeaders # <<>>
                             THEN <<FlagExternalW0, FlagAnalyzeExternalOff>>
                             ELSE <<>>)]))

\* String.prototype.indexOf for one character, from 1; 0 when it is absent.
RECURSIVE IndexOf(_, _, _)
IndexOf(s, c, i) ==
    With(i, LAMBDA k : IF k > Len(s) THEN 0 ELSE IF s[k] = c THEN k ELSE IndexOf(s, c, k + 1))

\* The loop of extractEnvironmentFromCommandPrompt over the lines of the
\* standard output; INCLUDE is abbreviated "I" and LIB "L".
RECURSIVE ParseEnvLines(_, _)
ParseEnvLines(lines, env) ==
    With2(lines, env, LAMBDA ls, e :
      IF ls = <<>> THEN e
      ELSE With2(ls[1], IndexOf(ls[1], "=", 1), LAMBDA line, index :
             LET envVar == SubSeq(line, 1, index - 1)
                 value == SubSeq(line, index + 1, Len(line))
             IN  IF index # 0 /\ envVar = <<"I">>
                   THEN ParseEnvLines(Tail(ls), [e EXCEPT !.INCLUDE = value])
                 ELSE IF index # 0 /\ envVar = <<"L">>
                   THEN ParseEnvLines(Tail(ls), [e EXCEPT !.LIB = value])
                 ELSE ParseEnvLines(Tail(ls), e)))

\* The architecture argument of vcvarsall.bat
VcvarsArch(toolchain) ==
    IF toolchain.hostArch = toolchain.targetArch THEN toolchain.hostArch
    ELSE toolchain.hostArch \o <<"_">> \o toolchain.targetArch

\* getCommonAnalyzeEnvironment: error is "none" unless it throws; ran tells
\* whether the command prompt script was invoked.
GetCommonAnalyzeEnvironment(toolchain, opts) ==
    With([CAEmitSarifLog |-> <<"1">>,
          CAExcludePath |-> ambient.CAExcludePath,
          INCLUDE |-> ambient.INCLUDE,
          LIB |-> ambient.LIB], LAMBDA env :
      IF opts.loadImplicitCompilerEnv = <<>>
        THEN [error |-> "none", ran |-> FALSE, vars |-> env]
      ELSE IF ~vcvars.exitOk
        THEN [error |-> "CommandPromptFailed", ran |-> TRUE, vars |-> env]
      ELSE With(ParseEnvLines(vcvars.stdout, [INCLUDE |-> <<>>, LIB |-> <<>>]),
                LAMBDA commandPromptEnv :
                  [error |-> "none", ran |-> TRUE,
                   vars |-> [env EXCEPT
                               !.CAExcludePath = @ \o <<";">> \o commandPromptEnv.INCLUDE,
                               !.INCLUDE = @ \o <<";">> \o commandPromptEnv.INCLUDE,
                               !.LIB = @ \o <<";">> \o commandPromptEnv.LIB]]))

\* A loop that leaves out the toolchains no compile command uses: the lazy
\* computation, which the loop over all toolchains is not.
NeedsCommonIfUsed(toolchain) ==
    /\ toolchain.path \notin DOMAIN commonArgsMap
    /\ \E c \in DOMAIN compileCommands : compileCommands[c].language = toolchain.language

\* A loop that computes the common values of every toolchain anew: what
\* the memoization by compiler path rules out.
NeedsCommonAlways(toolchain) == toolchain.path = toolchain.path

\* The test of line 557.
NeedsCommon(toolchain) == toolchain.path \notin DOMAIN commonArgsMap

(***************************************************************************)
(* The arguments of one source file                                        *)
(***************************************************************************)

\* The flag of one include (lines 570-577)
IncludeFlag(include, opts) ==
    IF opts.ignoreSystemHeaders # <<>> /\ include.isSystem
      THEN FlagExternalInclude \o include.path
      ELSE FlagInclude \o include.path

\* A log named after the source alone: what the disambiguator rules out.
SarifLogByName(dir, source, n) ==
    PathJoin(dir, Basename(source) \o <<".">> \o ToDecimal(n - n) \o SarifExt)

\* The SARIF log of the source that becomes command number n (lines 585-586)
SarifLog(dir, source, n) ==
    PathJoin(dir, Basename(source) \o <<".">> \o ToDecimal(n) \o SarifExt)

\* Arguments with the includes of the command before those of the toolchain:
\* what the fixed order of the three kinds of includes rules out.
SourceArgumentsCommandFirst(command, toolchain, opts, dir, n) ==
    With(command.includes \o toolchain.includes \o opts.ignoredIncludePaths,
         LAMBDA allIncludes :
      ArgStringToArray(command.args)
      \o [i \in DOMAIN allIncludes |-> IncludeFlag(allIncludes[i], opts)]
      \o [i \in DOMAIN command.defines |-> FlagDefine \o command.defines[i]]
      \o <<command.source>>
      \o <<FlagAnalyzeLog \o SarifLog(dir, command.source, n)>>)

\* The arguments of lines 567-587, before the common arguments are appended
SourceArguments(command, toolchain, opts, dir, n) ==
    With(toolchain.includes \o command.includes \o opts.ignoredIncludePaths,
         LAMBDA allIncludes :
      ArgStringToArray(command.args)
      \o [i \in DOMAIN allIncludes |-> IncludeFlag(allIncludes[i], opts)]
      \o [i \in DOMAIN command.defines |-> FlagDefine \o command.defines[i]]
      \o <<command.source>>
      \o <<FlagAnalyzeLog \o SarifLog(dir, command.source, n)>>)

(***************************************************************************)
(* main                                                                    *)
(***************************************************************************)

\* A throw inside main's try block: the catch of lines 658-664 calls
\* core.setFailed and main returns.
Throw(e) ==
    /\ pc' = "done"
    /\ error' = e
    /\ failed' = TRUE

\* Lines 628-631: the build directory input.
ResolveBuildDir ==
    /\ pc = "main"
    /\ \E inputPath \in {GetInput("cmakeBuildDirectory")} :
       \E dir \in {ResolveInputPathValue(inputPath)} :
         IF ResolveInputPathThrows(inputPath, TRUE)
           THEN Throw("InputPathEmpty") /\ UNCHANGED buildDir
         ELSE IF ~Exists(dir)
           THEN Throw("BuildDirectoryMissing") /\ UNCHANGED buildDir
         ELSE /\ buildDir' = dir
              /\ pc' = "prepareResultsDir"
              /\ UNCHANGED <<error, failed>>
    /\ UNCHANGED <<world, dirs, files, resultsDir, options, replyIndexInfo, toolchainMap,
                   compileCommands, commonArgsMap, commonEnvMap, analyzeCommands,
                   cursor, effects, attempts, computed, warnings>>

\* The stale SARIF files prepareResultsDir deletes (lines 611-617).
StaleSarifFiles(dir) ==
    IF GetInput("cleanSarif") = TrueText
      THEN {f \in ReadDir(dir) : f \in files /\ HasSarifExt(Basename(f))}
      ELSE {}

\* prepareResultsDir
PrepareResultsDir ==
    /\ pc = "prepareResultsDir"
    /\ \E inputPath \in {GetInput("resultsDirectory")} :
       \E dir \in {ResolveInputPathValue(inputPath)} :
       \E created \in {~Exists(dir)} :
       \E stale \in {StaleSarifFiles(dir)} :
         IF ResolveInputPathThrows(inputPath, TRUE)
           THEN /\ Throw("InputPathEmpty")
                /\ UNCHANGED <<dirs, files, resultsDir, effects>>
         ELSE /\ resultsDir' = dir
              /\ dirs' = IF created THEN dirs \cup WithAncestors(dir) ELSE dirs
              /\ files' = files \ stale
              /\ effects' = effects
                            \o (IF created THEN <<"mkdirResults">> ELSE <<>>)
                            \o (IF stale # {} THEN <<"unlinkSarif">> ELSE <<>>)
              /\ pc' = "options"
              /\ UNCHANGED <<error, failed>>
    /\ UNCHANGED <<world, buildDir, options, replyIndexInfo, toolchainMap,
                   compileCommands, commonArgsMap, commonEnvMap, analyzeCommands,
                   cursor, attempts, computed, warnings>>

\* The test of line 419: an array is truthy whatever it holds, a string is
\* truthy unless it is empty.
OptionsInvalid(ignoredIncludePaths, ignoreSystemHeaders) ==
    TRUE /\ ignoreSystemHeaders = <<>>

\* new CompilerCommandOptions()
ConstructOptions ==
    /\ pc = "options"
    /\ \E ignoreSystemHeaders \in {GetInput("ignoreSystemHeaders")} :
       \E resolved \in {ResolveInputPaths("ignoredIncludePaths")} :
       \E ignoredIncludePaths \in
            {[i \in DOMAIN resolved |-> [path |-> resolved[i], isSystem |-> TRUE]]} :
         IF OptionsInvalid(ignoredIncludePaths, ignoreSystemHeaders)
           THEN Throw("IgnoredIncludePathsRequireIgnoreSystemHeaders")
                /\ UNCHANGED options
         ELSE /\ options' = [ignoreSystemHeaders |-> ignoreSystemHeaders,
                             loadImplicitCompilerEnv |-> GetInput("loadImplicitCompilerEnv"),
                             ignoredTargetPaths |-> ResolveInputPaths("ignoredTargetPaths"),
                             ignoredIncludePaths |-> ignoredIncludePaths,
                             additionalArgs |-> GetInput("additionalArgs")]
              /\ pc' = "loadReplies"
              /\ UNCHANGED <<error, failed>>
    /\ UNCHANGED <<world, dirs, files, buildDir, resultsDir, replyIndexInfo, toolchainMap,
                   compileCommands, commonArgsMap, commonEnvMap, analyzeCommands,
                   cursor, effects, attempts, computed, warnings>>

\* createApiQuery: the query directory and the query file are written.
QueryWritten(queryDir) ==
    /\ dirs' = dirs \cup WithAncestors(queryDir)
    /\ files' = files \cup {PathJoin(queryDir, QueryFileName)}
    /\ effects' = effects \o <<"writeQuery", "cmake">>

\* loadCMakeApiReplies, with createApiQuery and getApiReplyIndex
LoadCMakeApiReplies ==
    /\ pc = "loadReplies"
    /\ \E queryDir \in {PathJoin(PathJoin(buildDir, ApiDirName), QueryDirName)} :
       \E version \in {VersionString(cmake.version)} :
         IF IsDirectoryEmpty(buildDir)
           THEN /\ Throw("BuildRootEmpty")
                /\ UNCHANGED <<dirs, files, effects, replyIndexInfo>>
         ELSE IF ~cmake.onPath
           THEN /\ Throw("CMakeNotFound")
                /\ UNCHANGED <<dirs, files, effects, replyIndexInfo>>
         ELSE IF ~cmake.exitOk
           THEN /\ Throw("CMakeFailed")
                /\ QueryWritten(queryDir)
                /\ UNCHANGED replyIndexInfo
         ELSE IF ~cmake.hasIndex
           THEN /\ Throw("IndexReplyMissing")
                /\ QueryWritten(queryDir)
                /\ UNCHANGED replyIndexInfo
         ELSE IF VersionUnsupported(version)
           THEN /\ Throw("UnsupportedVersion")
                /\ QueryWritten(queryDir)
                /\ UNCHANGED replyIndexInfo
         ELSE /\ QueryWritten(queryDir)
              /\ replyIndexInfo' = [version |-> version,
                                    codemodelResponseFile |-> cmake.hasCodemodel,
                                    toolchainsResponseFile |-> cmake.hasToolchains]
              /\ pc' = "toolchains"
              /\ UNCHANGED <<error, failed>>
    /\ UNCHANGED <<world, buildDir, resultsDir, options, toolchainMap,
                   compileCommands, commonArgsMap, commonEnvMap, analyzeCommands,
                   cursor, attempts, computed, warnings>>

\* loadToolchainMap
LoadToolchainMap ==
    /\ pc = "toolchains"
    /\ \E found \in {FindToolchain(cmake.toolchains, "C")
                     \o FindToolchain(cmake.toolchains, "CXX")} :
         IF ~replyIndexInfo.toolchainsResponseFile
           THEN Throw("ToolchainsResponseMissing") /\ UNCHANGED toolchainMap
         ELSE IF \E i \in DOMAIN found : ToolchainLayoutUnknown(found[i])
           THEN Throw("UnknownToolsetLayout") /\ UNCHANGED toolchainMap
         ELSE IF found = <<>>
           THEN Throw("NoMsvcToolchain") /\ UNCHANGED toolchainMap
         ELSE /\ toolchainMap' = [i \in DOMAIN found |-> ToolchainInfo(found[i])]
              /\ pc' = "compileCommands"
              /\ UNCHANGED <<error, failed>>
    /\ UNCHANGED <<world, dirs, files, buildDir, resultsDir, options, replyIndexInfo,
                   compileCommands, commonArgsMap, commonEnvMap, analyzeCommands,
                   cursor, effects, attempts, computed, warnings>>

\* loadCompileCommands; the loop of lines 556-561 starts after it
LoadCompileCommands ==
    /\ pc = "compileCommands"
    /\ IF ~replyIndexInfo.codemodelResponseFile
         THEN Throw("CodemodelResponseMissing") /\ UNCHANGED <<compileCommands, cursor>>
         ELSE /\ compileCommands' = CommandsOfTargets(cmake.sourceRoot, cmake.targets,
                                                      options.ignoredTargetPaths)
              /\ cursor' = 1
              /\ pc' = "common"
              /\ UNCHANGED <<error, failed>>
    /\ UNCHANGED <<world, dirs, files, buildDir, resultsDir, options, replyIndexInfo,
                   toolchainMap, commonArgsMap, commonEnvMap, analyzeCommands,
                   effects, attempts, computed, warnings>>

\* Where main goes when the loop over the toolchains ends.
AfterCommon == IF compileCommands = <<>> THEN "checkPlan" ELSE "assemble"

\* A map with one more key.
Put(map, key, value) ==
    [k \in DOMAIN map \cup {key} |-> IF k = key THEN value ELSE map[k]]

\* One iteration of the loop of lines 556-561.
ComputeCommon ==
    /\ pc = "common"
    /\ \E toolchain \in {toolchainMap[cursor]} :
       \E last \in {cursor = Len(toolchainMap)} :
         IF ~NeedsCommon(toolchain)
           THEN /\ cursor' = IF last THEN 1 ELSE cursor + 1
                /\ pc' = IF last THEN AfterCommon ELSE "common"
                /\ UNCHANGED <<error, failed, commonArgsMap, commonEnvMap, computed,
                               effects, warnings>>
         ELSE \E a \in {GetCommonAnalyzeArguments(toolchain, options)} :
              \E e \in {GetCommonAnalyzeEnvironment(toolchain, options)} :
                IF a.error # "none"
                  THEN /\ Throw(a.error)
                       /\ computed' = Append(computed, [path |-> toolchain.path,
                                                        vcvars |-> FALSE])
                       /\ UNCHANGED <<cursor, commonArgsMap, commonEnvMap, effects,
                                      warnings>>
                ELSE IF e.error # "none"
                  THEN /\ Throw(e.error)
                       /\ commonArgsMap' = Put(commonArgsMap, toolchain.path, a.args)
                       /\ computed' = Append(computed, [path |-> toolchain.path,
                                                        vcvars |-> e.ran])
                       /\ effects' = effects \o <<"vcvars">>
                       /\ UNCHANGED <<cursor, commonEnvMap, warnings>>
                ELSE /\ commonArgsMap' = Put(commonArgsMap, toolchain.path, a.args)
                     /\ commonEnvMap' = Put(commonEnvMap, toolchain.path,
                                            [id |-> Len(computed) + 1, vars |-> e.vars])
                     /\ computed' = Append(computed, [path |-> toolchain.path,
                                                      vcvars |-> e.ran])
                     /\ effects' = effects \o (IF e.ran THEN <<"vcvars">> ELSE <<>>)
                     /\ warnings' = warnings
                                    \o (IF \A i \in DOMAIN a.args :
                                             ~StartsWith(a.args[i], FlagRuleset)
                                          THEN <<"RulesetNotUsed">> ELSE <<>>)
                     /\ cursor' = IF last THEN 1 ELSE cursor + 1
                     /\ pc' = IF last THEN AfterCommon ELSE "common"
                     /\ UNCHANGED <<error, failed>>
    /\ UNCHANGED <<world, dirs, files, buildDir, resultsDir, options, replyIndexInfo,
                   toolchainMap, compileCommands, analyzeCommands, attempts>>

\* One iteration of the loop of lines 564-592.
AssembleCommand ==
    /\ pc = "assemble"
    /\ \E command \in {compileCommands[cursor]} :
       \E found \in {ToolchainOf(toolchainMap, command.language)} :
         analyzeCommands' =
           IF found = <<>> THEN analyzeCommands
           ELSE Append(analyzeCommands,
                       [source |-> command.source,
                        compiler |-> found[1].path,
                        args |-> SourceArguments(command, found[1], options, resultsDir,
                                                 Len(analyzeCommands))
                                 \o commonArgsMap[found[1].path],
                        env |-> commonEnvMap[found[1].path]])
    /\ cursor' = IF cursor = Len(compileCommands) THEN 1 ELSE cursor + 1
    /\ pc' = IF cursor = Len(compileCommands) THEN "checkPlan" ELSE "assemble"
    /\ UNCHANGED <<world, dirs, files, error, failed, buildDir, resultsDir, options,
                   replyIndexInfo, toolchainMap, compileCommands, commonArgsMap,
                   commonEnvMap, effects, attempts, computed, warnings>>

\* Lines 636-638.
CheckPlan ==
    /\ pc = "checkPlan"
    /\ IF Len(analyzeCommands) = 0
         THEN Throw("NoFilesToAnalyze")
         ELSE pc' = "exec" /\ UNCHANGED <<error, failed>>
    /\ UNCHANGED <<world, dirs, files, buildDir, resultsDir, options, replyIndexInfo,
                   toolchainMap, compileCommands, commonArgsMap, commonEnvMap,
                   analyzeCommands, cursor, effects, attempts, computed, warnings>>

\* A loop without the inner try/catch: a failure of the analyzer reaches the
\* catch of main, which is what the isolation of failures rules out.
AfterAnalysisUncaught(ok) ==
    [rethrow |-> ~ok, warn |-> FALSE, next |-> cursor + 1]

\* The try/catch of lines 649-655 around one analyzer invocation: a failure is
\* caught and logged as a warning, and the loop goes on with the next command.
AfterAnalysis(ok) ==
    [rethrow |-> FALSE, warn |-> ~ok, next |-> cursor + 1]

\* One iteration of the loop of lines 641-656.
ExecCommand ==
    /\ pc = "exec"
    /\ \E ok \in analyzer :
       \E after \in {AfterAnalysis(ok)} :
         /\ attempts' = Append(attempts, [index |-> cursor, ok |-> ok])
         /\ effects' = effects \o <<"analyzer">>
         /\ warnings' = warnings \o (IF after.warn THEN <<"CompilationFailed">> ELSE <<>>)
         /\ IF after.rethrow
              THEN Throw("AnalyzerFailed") /\ UNCHANGED cursor
              ELSE /\ cursor' = after.next
                   /\ pc' = IF after.next > Len(analyzeCommands) THEN "done" ELSE "exec"
                   /\ UNCHANGED <<error, failed>>
    /\ UNCHANGED <<world, dirs, files, buildDir, resultsDir, options, replyIndexInfo,
                   toolchainMap, compileCommands, commonArgsMap, commonEnvMap,
                   analyzeCommands, computed>>

Next ==
    \/ ResolveBuildDir
    \/ PrepareResultsDir
    \/ ConstructOptions
    \/ LoadCMakeApiReplies
    \/ LoadToolchainMap
    \/ LoadCompileCommands
    \/ ComputeCommon
    \/ AssembleCommand
    \/ CheckPlan
    \/ ExecCommand

(***************************************************************************)
(* The machines the run is checked on                                      *)
(***************************************************************************)

\* The workspace, the build directory and the results directory.
Ws == <<"/", "w">>

BuildInput == <<"b">>

BuildPath == <<"/", "w", "/", "b">>

CachePath == <<"/", "w", "/", "b", "/", "C">>

ResultsInput == <<"o">>

ResultsPath == <<"/", "w", "/", "o">>

StaleSarifPath == <<"/", "w", "/", "o", "/", "x", ".", "s", "a", "r", "i", "f">>

\* A Visual Studio installation: <root>/VC/Tools/MSVC/<toolset>/bin/<host>/<target>/cl.exe,
\* with the folders VC, Tools, MSVC and bin abbreviated V, T, M and b.
BinDir == <<"/", "e", "/", "V", "/", "T", "/", "M", "/", "1", "/", "b">>

ClHost64Target64 == BinDir \o <<"/">> \o HostX64 \o <<"/">> \o X64 \o <<"/", "c", "l">>

ClHost64Target86 == BinDir \o <<"/">> \o HostX64 \o <<"/">> \o X86 \o <<"/", "c", "l">>

ClUnknownHost == BinDir \o <<"/", "H", "/">> \o X64 \o <<"/", "c", "l">>

EspXHost64 == BinDir \o <<"/">> \o HostX64 \o <<"/">> \o X64 \o <<"/">> \o EspXEngineName

OfficialRulesetDir == <<"/", "e", "/", "R">>

BaseDirs ==
    WithAncestors(BuildPath) \cup WithAncestors(Dirname(ClHost64Target64))
      \cup WithAncestors(Dirname(ClHost64Target86))

BaseFiles == {CachePath, EspXHost64, ClHost64Target64, ClHost64Target86}

BaseInputs ==
    [cmakeBuildDirectory |-> BuildInput,
     resultsDirectory |-> ResultsInput,
     ruleset |-> <<>>,
     ignoreSystemHeaders |-> TrueText,
     loadImplicitCompilerEnv |-> <<>>,
     ignoredTargetPaths |-> <<>>,
     ignoredIncludePaths |-> <<>>,
     additionalArgs |-> <<>>,
     cleanSarif |-> <<>>]

Toolchain(language, id, path) ==
    [language |-> language, id |-> id, path |-> path, version |-> <<"1", "9">>,
     implicit |-> <<>>]

\* A compile group of one language with the given sources.
Group(language, sources) ==
    [language |-> language,
     fragments |-> << <<"/", "W", "4">>, <<"/", "O", "2">> >>,
     includes |-> << [path |-> <<"/", "w", "/", "i">>, isSystem |-> FALSE],
                     [path |-> <<"/", "w", "/", "s">>, isSystem |-> TRUE] >>,
     defines |-> << <<"N">> >>,
     sources |-> sources]

Target(source, groups) == [source |-> source, groups |-> groups]

BaseCMake ==
    [onPath |-> TRUE, exitOk |-> TRUE, hasIndex |-> TRUE, version |-> <<3, 21, 0>>,
     hasToolchains |-> TRUE,
     toolchains |-> <<Toolchain("C", "MSVC", ClHost64Target64),
                      Toolchain("CXX", "MSVC", ClHost64Target64)>>,
     hasCodemodel |-> TRUE,
     sourceRoot |-> Ws,
     targets |-> <<Target(<<".">>, <<Group("CXX", << <<"m", ".", "c">> >>)>>)>>]

BaseVcvars ==
    [exitOk |-> TRUE,
     stdout |-> << <<"P", "=", "p">>, <<"I", "=", "/", "v", "i">>, <<"L", "=", "/", "v", "l">> >>]

BaseAmbient == [CAExcludePath |-> <<>>, INCLUDE |-> <<"/", "a", "i">>, LIB |-> <<>>]

\* The value of a variable main has not assigned yet.
Unset == <<>>

\* The state main starts in, on a given machine.
Start(in, ws, d, f, cm, vc, an) ==
    /\ inputs = in
    /\ workspace = ws
    /\ ambient = BaseAmbient
    /\ dirs = d
    /\ files = f
    /\ cmake = cm
    /\ vcvars = vc
    /\ analyzer = an
    /\ pc = "main"
    /\ error = "none"
    /\ failed = FALSE
    /\ buildDir = Unset
    /\ resultsDir = Unset
    /\ options = Unset
    /\ replyIndexInfo = Unset
    /\ toolchainMap = Unset
    /\ compileCommands = Unset
    /\ commonArgsMap = <<>>
    /\ commonEnvMap = <<>>
    /\ analyzeCommands = <<>>
    /\ cursor = 1
    /\ effects = <<>>
    /\ attempts = <<>>
    /\ computed = <<>>
    /\ warnings = <<>>

(***************************************************************************)
(* Version gating                                                          *)
(***************************************************************************)

Majors == {2, 3, 4, 10}

Minors == {0, 9, 10, 19, 20, 21, 100}

Patches == {0, 4, 5, 6, 10}

InitVersion ==
    \E major \in Majors, minor \in Minors, patch \in Patches, ok \in BOOLEAN, index \in BOOLEAN :
      Start(BaseInputs, Ws, BaseDirs, BaseFiles,
            [BaseCMake EXCEPT !.version = <<major, minor, patch>>,
                              !.exitOk = ok, !.hasIndex = index],
            BaseVcvars, BOOLEAN)

SpecVersion == InitVersion /\ [][Next]_vars

\* Numeric comparison of two versions, segment by segment.
VersionBelow(v, w) ==
    \/ v[1] < w[1]
    \/ v[1] = w[1] /\ v[2] < w[2]
    \/ v[1] = w[1] /\ v[2] = w[2] /\ v[3] < w[3]

\* The version check of loadCMakeApiReplies has been reached: cmake ran and
\* wrote an index reply.
VersionChecked ==
    /\ "cmake" \in Range(effects)
    /\ cmake.exitOk
    /\ cmake.hasIndex

\* C1: once loadCMakeApiReplies has read the reply index, the run has failed
\* with the unsupported-version error exactly when the reported version is
\* numerically below 3.20.5.
C1_VersionGate ==
    VersionChecked =>
      ((error = "UnsupportedVersion") <=> VersionBelow(cmake.version, <<3, 20, 5>>))


(***************************************************************************)
(* Target exclusion                                                        *)
(***************************************************************************)

\* The sequences over S of at most n elements.
SeqsUpTo(S, n) == UNION {[1..k -> S] : k \in 0..n}

\* How many targets the codemodel of the model has at most.
MaxTargets == 2

\* The repository of the spec's example: /r is /repo, t is third_party, l is
\* lib, t_o is third_party_other, u an unrelated folder.
Repo == <<"/", "r">>

TargetDirs ==
    { <<".">>, <<"t">>, <<"t", "/", "l">>, <<"t", "_", "o">>, <<"u">> }

Workspaces == { <<"/", "r", "/", "t">>, <<"/", "r", "/", "u">> }

IgnoredTargetInputs ==
    { <<>>, <<"t">>, <<"/", "r", "/", "t", ";", "/", "r", "/", "u">> }

\* A target of one C++ source in its own directory.
TargetIn(dir) == Target(dir, <<Group("CXX", <<dir \o <<"/", "m", ".", "c">> >>)>>)

InitTargets ==
    \E ws \in Workspaces, ignored \in IgnoredTargetInputs,
       ds \in (SeqsUpTo(TargetDirs, MaxTargets) \ {<<>>}) :
      Start([BaseInputs EXCEPT !.cmakeBuildDirectory = BuildPath,
                               !.resultsDirectory = ResultsPath,
                               !.ignoredTargetPaths = ignored],
            ws, BaseDirs \cup WithAncestors(ws), BaseFiles,
            [BaseCMake EXCEPT !.sourceRoot = Repo,
                              !.targets = [k \in DOMAIN ds |-> TargetIn(ds[k])]],
            BaseVcvars, {TRUE})

SpecTargets == InitTargets /\ [][Next]_vars

\* The errors main can only meet after loadCompileCommands has returned.
LateErrors ==
    {"none", "EspXEngineNotFound", "RulesetNotFound", "AssignmentToConstant",
     "CommandPromptFailed", "NoFilesToAnalyze", "AnalyzerFailed"}

\* loadCompileCommands has returned.
CommandsLoaded ==
    \/ pc \in {"common", "assemble", "checkPlan", "exec"}
    \/ pc = "done" /\ error \in LateErrors

\* The names of the folders on the way from the root to a directory.
Components(dir) ==
    With(Split(Normalize(dir), "/"), LAMBDA parts :
      Flatten([i \in DOMAIN parts |-> IF parts[i] = <<>> THEN <<>> ELSE <<parts[i]>>]))

\* dir is ancestor, or is an ancestor of it in the file system.
IsAtOrBelow(ancestor, dir) ==
    With2(Components(ancestor), Components(dir), LAMBDA a, d :
      Len(a) <= Len(d) /\ SubSeq(d, 1, Len(a)) = a)

\* The directory of a target of the codemodel.
TargetDirOf(target) == PathJoin(cmake.sourceRoot, target.source)

\* No compile command was made for the sources of the target.
TargetSkipped(target) ==
    \A g \in DOMAIN target.groups : \A k \in DOMAIN target.groups[g].sources :
      \A c \in DOMAIN compileCommands :
        compileCommands[c].source # PathJoin(cmake.sourceRoot, target.groups[g].sources[k])

\* C2: once loadCompileCommands has returned, a target was skipped exactly
\* when its source directory is an entry of ignoredTargetPaths or lies below
\* one in the file system.
C2_TargetExclusion ==
    CommandsLoaded =>
      \A t \in DOMAIN cmake.targets :
        TargetSkipped(cmake.targets[t])
          <=> \E i \in DOMAIN options.ignoredTargetPaths :
                IsAtOrBelow(options.ignoredTargetPaths[i], TargetDirOf(cmake.targets[t]))

(***************************************************************************)
(* Options and configuration errors                                        *)
(***************************************************************************)

\* The build directory is missing, empty, or configured by CMake.
BuildDirStates ==
    { [dirs |-> BaseDirs \ {BuildPath}, files |-> BaseFiles \ {CachePath}],
      [dirs |-> BaseDirs, files |-> BaseFiles \ {CachePath}],
      [dirs |-> BaseDirs, files |-> BaseFiles] }

\* The results directory is missing, empty, or holds a SARIF file of an
\* earlier run.
ResultsDirStates ==
    { [dirs |-> {}, files |-> {}],
      [dirs |-> {ResultsPath}, files |-> {}],
      [dirs |-> {ResultsPath}, files |-> {StaleSarifPath}] }

InitOptions ==
    \E build \in {<<>>, BuildInput}, results \in {<<>>, ResultsInput},
       clean \in {<<>>, TrueText, FalseText},
       system \in {<<>>, TrueText, FalseText},
       ignored \in {<<>>, <<"i">>, <<"i", ";", "j">>},
       b \in BuildDirStates, r \in ResultsDirStates :
      Start([BaseInputs EXCEPT !.cmakeBuildDirectory = build,
                               !.resultsDirectory = results,
                               !.cleanSarif = clean,
                               !.ignoreSystemHeaders = system,
                               !.ignoredIncludePaths = ignored],
            Ws, b.dirs \cup r.dirs, b.files \cup r.files,
            BaseCMake, BaseVcvars, {TRUE})

SpecOptions == InitOptions /\ [][Next]_vars

\* The constructor of CompilerCommandOptions has been called.
OptionsAttempted ==
    /\ pc \notin {"main", "prepareResultsDir", "options"}
    /\ error \notin {"InputPathEmpty", "BuildDirectoryMissing"}

\* C5: when ignoredIncludePaths is not empty and ignoreSystemHeaders is the
\* input value 'false', the constructor of CompilerCommandOptions fails with
\* the configuration error, and no AnalyzeCommand is assembled.
C5_IgnoredIncludePathsNeedSystemHeaders ==
    (/\ GetInput("ignoredIncludePaths") # <<>>
     /\ GetInput("ignoreSystemHeaders") = FalseText
     /\ OptionsAttempted)
      => /\ error = "IgnoredIncludePathsRequireIgnoreSystemHeaders"
         /\ analyzeCommands = <<>>

\* The errors of the configuration: the build directory is missing or empty,
\* or the options do not go together.
ConfigurationErrors ==
    {"BuildDirectoryMissing", "BuildRootEmpty",
     "IgnoredIncludePathsRequireIgnoreSystemHeaders"}

\* The work a run does on the machine.
Work == {"mkdirResults", "unlinkSarif", "writeQuery", "cmake", "analyzer"}

\* C7: when the run has failed with a configuration error, it has not created
\* the results directory, deleted a SARIF file, written the query file, run
\* cmake or run the analyzer.
C7_ConfigurationErrorBeforeWork ==
    error \in ConfigurationErrors => Range(effects) \cap Work = {}

(***************************************************************************)
(* Rulesets and additional arguments                                       *)
(***************************************************************************)

RulesetName == <<"r">>

\* The toolchains of C and C++ are the same compiler, or two compilers of one
\* Visual Studio installation.
ToolchainChoices ==
    { <<Toolchain("C", "MSVC", ClHost64Target64), Toolchain("CXX", "MSVC", ClHost64Target64)>>,
      <<Toolchain("C", "MSVC", ClHost64Target64), Toolchain("CXX", "MSVC", ClHost64Target86)>> }

AdditionalArgsChoices == { <<>>, <<"/", "x">>, <<"/", "x", " ", "/", "y">> }

\* The official ruleset directory is missing, lacks the ruleset, or has it.
OfficialStates ==
    { [dirs |-> {}, files |-> {}],
      [dirs |-> WithAncestors(OfficialRulesetDir), files |-> {}],
      [dirs |-> WithAncestors(OfficialRulesetDir),
       files |-> {PathJoin(OfficialRulesetDir, RulesetName)}] }

InitRuleset ==
    \E ruleset \in {<<>>, RulesetName}, local \in BOOLEAN,
       official \in OfficialStates, extra \in AdditionalArgsChoices,
       system \in {TrueText, FalseText}, toolchains \in ToolchainChoices :
      Start([BaseInputs EXCEPT !.ruleset = ruleset,
                               !.additionalArgs = extra,
                               !.ignoreSystemHeaders = system],
            Ws, BaseDirs \cup official.dirs,
            BaseFiles \cup official.files
              \cup (IF local THEN {PathJoin(Ws, RulesetName)} ELSE {}),
            [BaseCMake EXCEPT !.toolchains = toolchains],
            BaseVcvars, {TRUE})

SpecRuleset == InitRuleset /\ [][Next]_vars

\* The ruleset flags among the arguments.
RulesetFlags(args) ==
    {a \in Range(args) : StartsWith(a, FlagRuleset) /\ ~StartsWith(a, FlagRulesetDirectory)}

RulesetDirectoryFlags(args) == {a \in Range(args) : StartsWith(a, FlagRulesetDirectory)}

\* getCommonAnalyzeArguments has been called for a toolchain.
CommonArgumentsAttempted == computed # <<>>

\* C3: with an empty ruleset input the search for the ruleset raises no error
\* and the common arguments hold no ruleset flag and no ruleset directory flag.
C3_NoRulesetNoFlags ==
    (GetInput("ruleset") = <<>> /\ CommonArgumentsAttempted)
      => /\ error # "RulesetNotFound"
         /\ \A p \in DOMAIN commonArgsMap :
              /\ RulesetFlags(commonArgsMap[p]) = {}
              /\ RulesetDirectoryFlags(commonArgsMap[p]) = {}

\* s ends with the elements of t, in order.
EndsWith(s, t) ==
    Len(t) <= Len(s) /\ SubSeq(s, Len(s) - Len(t) + 1, Len(s)) = t

\* C4: with a non-empty additionalArgs input the common arguments are built
\* without the failure of the assignment, and the tokens of the input are the
\* last common arguments and the last arguments of every AnalyzeCommand.
C4_AdditionalArgsAppended ==
    (GetInput("additionalArgs") # <<>> /\ CommonArgumentsAttempted)
      => /\ error # "AssignmentToConstant"
         /\ \A p \in DOMAIN commonArgsMap :
              EndsWith(commonArgsMap[p], ArgStringToArray(GetInput("additionalArgs")))
         /\ \A c \in DOMAIN analyzeCommands :
              EndsWith(analyzeCommands[c].args, ArgStringToArray(GetInput("additionalArgs")))

\* The ruleset file in the repository and the one in the official directory.
LocalRuleset == PathJoin(workspace, GetInput("ruleset"))

OfficialRuleset == OfficialRulesetDir \o <<"/">> \o GetInput("ruleset")

\* The ruleset the search order of the specification yields, if any.
ExpectedRuleset ==
    IF LocalRuleset \in files THEN <<LocalRuleset>>
    ELSE IF OfficialRulesetDir \in dirs /\ OfficialRuleset \in files THEN <<OfficialRuleset>>
    ELSE <<>>

\* C10: for a non-empty ruleset input the run fails with the ruleset-not-found
\* error exactly when the ruleset is neither in the repository nor in the
\* official directory, and otherwise the ruleset flag of the common arguments
\* names the file in the repository if it exists, else the official one.
C10_RulesetSearchOrder ==
    (GetInput("ruleset") # <<>> /\ CommonArgumentsAttempted)
      => /\ (error = "RulesetNotFound") <=> (ExpectedRuleset = <<>>)
         /\ \A p \in DOMAIN commonArgsMap :
              RulesetFlags(commonArgsMap[p])
                = {FlagRuleset \o ExpectedRuleset[i] : i \in DOMAIN ExpectedRuleset}

\* C10 witness: the ruleset exists in both places and the local one was taken
C10_LocalWinsReached ==
    /\ GetInput("ruleset") # <<>>
    /\ LocalRuleset \in files
    /\ OfficialRuleset \in files
    /\ \E p \in DOMAIN commonArgsMap :
         RulesetFlags(commonArgsMap[p]) = {FlagRuleset \o LocalRuleset}

(***************************************************************************)
(* The plan and its execution                                              *)
(***************************************************************************)

\* How many sources the codemodel of the model has at most.
MaxSources == 3

\* Two sources of the same base name in two folders, and a resource script,
\* whose language no toolchain of the map serves.
SourceChoices ==
    { [language |-> "CXX", source |-> <<"a", "/", "m", ".", "c">>],
      [language |-> "C", source |-> <<"b", "/", "m", ".", "c">>],
      [language |-> "RC", source |-> <<"a", "/", "r">>] }

\* C and C++ share one compiler, have two compilers, or only C++ has one.
PlanToolchains ==
    ToolchainChoices \cup {<<Toolchain("C", "GNU", <<"/", "g">>),
                             Toolchain("CXX", "MSVC", ClHost64Target64)>>}

InitPlan ==
    \E sources \in SeqsUpTo(SourceChoices, MaxSources), toolchains \in PlanToolchains,
       implicit \in {<<>>, TrueText}, prompt \in BOOLEAN :
      /\ implicit = <<>> => prompt
      /\ Start([BaseInputs EXCEPT !.loadImplicitCompilerEnv = implicit],
               Ws, BaseDirs, BaseFiles,
               [BaseCMake EXCEPT
                  !.toolchains = toolchains,
                  !.targets = [k \in DOMAIN sources |->
                                 Target(<<".">>, <<Group(sources[k].language,
                                                         <<sources[k].source>>)>>)]],
               [BaseVcvars EXCEPT !.exitOk = prompt], BOOLEAN)

SpecPlan == InitPlan /\ [][Next]_vars

\* How many elements of a sequence satisfy a test.
CountOf(s, Test(_)) == Cardinality({i \in DOMAIN s : Test(s[i])})

\* C6: the analyzer is attempted on the commands of the plan in plan order,
\* each once; a failed attempt leaves a warning and nothing else, so the run
\* ends with every command attempted and is not marked failed.
C6_EveryCommandAttemptedOnce ==
    /\ \A i \in DOMAIN attempts : attempts[i].index = i
    /\ Len(attempts) <= Len(analyzeCommands)
    /\ pc = "exec" => cursor = Len(attempts) + 1
    /\ CountOf(warnings, LAMBDA w : w = "CompilationFailed")
         = CountOf(attempts, LAMBDA a : ~a.ok)
    /\ CountOf(effects, LAMBDA e : e = "analyzer") = Len(attempts)
    /\ (pc = "done" /\ attempts # <<>>)
         => /\ Len(attempts) = Len(analyzeCommands)
            /\ ~failed
            /\ error = "none"

\* C6 witness: a plan of three commands was run to its end although the first
\* and the second attempt failed
C6_AllAttemptedAfterFailures ==
    /\ pc = "done"
    /\ Len(analyzeCommands) = 3
    /\ Len(attempts) = 3
    /\ ~attempts[1].ok
    /\ ~attempts[2].ok
    /\ attempts[3].ok
    /\ ~failed

\* The common values are computed once per compiler path, every command
\* carries the values of its compiler, and the script ran once per computation.
CommonValuesShared ==
    /\ \A i, j \in DOMAIN computed : computed[i].path = computed[j].path => i = j
    /\ DOMAIN commonEnvMap \subseteq DOMAIN commonArgsMap
    /\ DOMAIN commonArgsMap \subseteq {computed[i].path : i \in DOMAIN computed}
    /\ CountOf(effects, LAMBDA e : e = "vcvars") = CountOf(computed, LAMBDA c : c.vcvars)
    /\ \A c \in DOMAIN analyzeCommands :
         /\ analyzeCommands[c].env = commonEnvMap[analyzeCommands[c].compiler]
         /\ EndsWith(analyzeCommands[c].args, commonArgsMap[analyzeCommands[c].compiler])
    /\ \A c, d \in DOMAIN analyzeCommands :
         analyzeCommands[c].compiler = analyzeCommands[d].compiler
           => analyzeCommands[c].env.id = analyzeCommands[d].env.id

\* A key of the two maps keeps the value it was given.
CommonValuesWrittenOnce ==
    /\ \A p \in DOMAIN commonArgsMap :
         p \in DOMAIN commonArgsMap' /\ commonArgsMap'[p] = commonArgsMap[p]
    /\ \A p \in DOMAIN commonEnvMap :
         p \in DOMAIN commonEnvMap' /\ commonEnvMap'[p] = commonEnvMap[p]

\* C8: the common arguments and the common environment are computed, and the
\* command prompt script is run, at most once per compiler path; a key of the
\* two maps is written once; and the commands of one compiler path carry the
\* same environment object and the same common arguments at their end.
C8_MemoizedByCompilerPath ==
    []CommonValuesShared /\ [][CommonValuesWrittenOnce]_vars

\* C8 witness: two commands of two languages share one compiler, whose values
\* were computed once with one run of the command prompt script
C8_TwoLanguagesOneCompiler ==
    /\ Len(toolchainMap) = 2
    /\ toolchainMap[1].path = toolchainMap[2].path
    /\ Len(computed) = 1
    /\ computed[1].vcvars
    /\ \E c, d \in DOMAIN analyzeCommands :
         /\ compileCommands[c].language # compileCommands[d].language
         /\ analyzeCommands[c].compiler = analyzeCommands[d].compiler

\* The log argument of a command: the last one before the common arguments.
LogOf(command) ==
    With(command.args[Len(command.args) - Len(commonArgsMap[command.compiler])],
         LAMBDA arg : SubSeq(arg, Len(FlagAnalyzeLog) + 1, Len(arg)))

\* The number a decimal numeral denotes.
RECURSIVE ParseDecimal(_)
ParseDecimal(digits) ==
    IF digits = <<>> THEN 0
    ELSE 10 * ParseDecimal(SubSeq(digits, 1, Len(digits) - 1))
         + (CHOOSE d \in 0..9 : DigitChar(d) = digits[Len(digits)])

\* The disambiguator of a log name <base name>.<number>.sarif
Disambiguator(log) ==
    With(Split(Basename(log), "."), LAMBDA parts : ParseDecimal(parts[Len(parts) - 1]))

\* C9: two commands of the plan have different log paths, and the number in
\* the log name of the later command is the greater one.
C9_DistinctLogs ==
    \A i, j \in DOMAIN analyzeCommands :
      i < j => /\ LogOf(analyzeCommands[i]) # LogOf(analyzeCommands[j])
               /\ Disambiguator(LogOf(analyzeCommands[i]))
                    < Disambiguator(LogOf(analyzeCommands[j]))

\* C9 witness: two sources of the same base name were planned, with a skipped
\* command of an unsupported language between them
C9_SameNameAroundSkipped ==
    /\ Len(compileCommands) = 3
    /\ compileCommands[2].language = "RC"
    /\ Len(analyzeCommands) = 2
    /\ analyzeCommands[1].source # analyzeCommands[2].source
    /\ Basename(analyzeCommands[1].source) = Basename(analyzeCommands[2].source)

(***************************************************************************)
(* The arguments of an AnalyzeCommand                                      *)
(***************************************************************************)

\* The implicit include directories the toolchains reply may list.
ImplicitChoices == { <<>>, << <<"/", "v">> >> }

\* The includes of a compile group: none, or a plain and a system one.
GroupIncludeChoices ==
    { <<>>,
      << [path |-> <<"/", "w", "/", "i">>, isSystem |-> FALSE],
         [path |-> <<"/", "w", "/", "s">>, isSystem |-> TRUE] >> }

\* One C++ source, or a C++ and a C source.
ArgsSourceChoices ==
    { << [language |-> "CXX", source |-> <<"a", "/", "m", ".", "c">>] >>,
      << [language |-> "CXX", source |-> <<"a", "/", "m", ".", "c">>],
         [language |-> "C", source |-> <<"b", "/", "m", ".", "c">>] >> }

InitArgs ==
    \E system \in {TrueText, FalseText},
       ignored \in {<<>>, <<"i">>, <<"i", ";", "j">>},
       implicit \in ImplicitChoices, includes \in GroupIncludeChoices,
       ruleset \in {<<>>, RulesetName}, official \in BOOLEAN,
       extra \in {<<>>, <<"/", "x">>}, sources \in ArgsSourceChoices :
      Start([BaseInputs EXCEPT !.ignoreSystemHeaders = system,
                               !.ignoredIncludePaths = ignored,
                               !.ruleset = ruleset,
                               !.additionalArgs = extra],
            Ws,
            BaseDirs \cup (IF official THEN WithAncestors(OfficialRulesetDir) ELSE {}),
            BaseFiles \cup {PathJoin(Ws, RulesetName)},
            [BaseCMake EXCEPT
               !.toolchains =
                  <<[Toolchain("C", "MSVC", ClHost64Target64) EXCEPT !.implicit = implicit],
                    [Toolchain("CXX", "MSVC", ClHost64Target86) EXCEPT !.implicit = implicit]>>,
               !.targets = [k \in DOMAIN sources |->
                              Target(<<".">>,
                                     <<[Group(sources[k].language, <<sources[k].source>>)
                                          EXCEPT !.includes = includes]>>)]],
            BaseVcvars, {TRUE})

SpecArgs == InitArgs /\ [][Next]_vars

\* The compile commands that get an AnalyzeCommand, in plan order.
PlannedCommands ==
    SelectSeq(compileCommands, LAMBDA c : ToolchainOf(toolchainMap, c.language) # <<>>)

\* The toolchain of a planned compile command.
ToolchainFor(command) == ToolchainOf(toolchainMap, command.language)[1]

\* The includes of a planned command, in the order of the specification.
IncludesInOrder(command) ==
    ToolchainFor(command).includes \o command.includes \o options.ignoredIncludePaths

\* The arguments a are the tokens, one flag per include, one flag per define,
\* the source, a log flag of the source in the results directory, and the
\* common arguments, in this order.
ArgsOrdered(a, command, tokens, includes, common) ==
    With3(Len(tokens), Len(includes), Len(command.defines), LAMBDA nT, nI, nD :
      /\ Len(a) = nT + nI + nD + 2 + Len(common)
      /\ SubSeq(a, 1, nT) = tokens
      /\ \A i \in 1..nI :
           a[nT + i] \in {FlagInclude \o includes[i].path,
                          FlagExternalInclude \o includes[i].path}
      /\ \A i \in 1..nD : a[nT + nI + i] = FlagDefine \o command.defines[i]
      /\ a[nT + nI + nD + 1] = command.source
      /\ StartsWith(a[nT + nI + nD + 2],
                    FlagAnalyzeLog \o resultsDir \o <<"/">> \o Basename(command.source))
      /\ SubSeq(a, nT + nI + nD + 3, Len(a)) = common)

\* C11: the arguments of every AnalyzeCommand are the tokens of the compile
\* fragments, the include flags of the toolchain, of the command and of the
\* ignored include paths, the define flags, the source, the log flag of the
\* source and the common arguments of the toolchain, in this order.
C11_ArgumentOrder ==
    \A k \in DOMAIN analyzeCommands :
      ArgsOrdered(analyzeCommands[k].args, PlannedCommands[k],
                  Split(PlannedCommands[k].args, " "),
                  IncludesInOrder(PlannedCommands[k]),
                  commonArgsMap[analyzeCommands[k].compiler])

\* C11 witness: a command was assembled from includes of all three kinds
C11_AllKindsOfIncludes ==
    \E k \in DOMAIN analyzeCommands :
      /\ ToolchainFor(PlannedCommands[k]).includes # <<>>
      /\ PlannedCommands[k].includes # <<>>
      /\ options.ignoredIncludePaths # <<>>
      /\ PlannedCommands[k].defines # <<>>

\* One for a flag that is present, zero for one that is absent.
Bit(b) == IF b THEN 1 ELSE 0

\* The flags are the analysis-only, quiet, log-format and plugin flags, then
\* the ruleset flag, the ruleset directory flag and the two flags of external
\* headers, each of the three present or absent.
CommonFlagsLaidOut(flags) ==
    /\ Len(flags) >= 4
    /\ SubSeq(flags, 1, 3) = <<FlagAnalyzeOnly, FlagAnalyzeQuiet, FlagAnalyzeSarif>>
    /\ StartsWith(flags[4], FlagPlugin)
    /\ \E r \in BOOLEAN, d \in BOOLEAN, e \in BOOLEAN :
         /\ Len(flags) = 4 + Bit(r) + Bit(d) + 2 * Bit(e)
         /\ r => /\ StartsWith(flags[5], FlagRuleset)
                 /\ ~StartsWith(flags[5], FlagRulesetDirectory)
         /\ d => StartsWith(flags[5 + Bit(r)], FlagRulesetDirectory)
         /\ e => SubSeq(flags, 5 + Bit(r) + Bit(d), Len(flags))
                   = <<FlagExternalW0, FlagAnalyzeExternalOff>>

\* The tokens of the additionalArgs input.
ExtraArgs == ArgStringToArray(options.additionalArgs)

\* The common arguments of a command without the tokens of additionalArgs.
CommonFlagsOf(command) ==
    With2(commonArgsMap[command.compiler], ExtraArgs, LAMBDA common, extra :
      SubSeq(common, 1, Len(common) - Len(extra)))

\* The arguments a in the layout of the process invocation contract: the
\* common flags, the include flags, the define flags, the source, the log
\* flag, the extra arguments and the tokens of the compile fragments.
ArgvOfContract(a, command, tokens, includes, flags, extra) ==
    With3(Len(flags), Len(includes), Len(command.defines), LAMBDA nC, nI, nD :
      /\ Len(a) = nC + nI + nD + 2 + Len(extra) + Len(tokens)
      /\ SubSeq(a, 1, nC) = flags
      /\ CommonFlagsLaidOut(flags)
      /\ \A i \in 1..nI :
           a[nC + i] \in {FlagInclude \o includes[i].path,
                          FlagExternalInclude \o includes[i].path}
      /\ \A i \in 1..nD : a[nC + nI + i] = FlagDefine \o command.defines[i]
      /\ a[nC + nI + nD + 1] = command.source
      /\ StartsWith(a[nC + nI + nD + 2], FlagAnalyzeLog \o resultsDir)
      /\ SubSeq(a, nC + nI + nD + 3, nC + nI + nD + 2 + Len(extra)) = extra
      /\ SubSeq(a, Len(a) - Len(tokens) + 1, Len(a)) = tokens)

\* C12: the arguments of every AnalyzeCommand are the common flags (analysis
\* only, quiet, log format, plugin, then the optional ruleset, ruleset
\* directory and external header flags), the include flags, the define flags,
\* the source, the log flag, the extra arguments and last the tokens of the
\* compile fragments.
C12_ArgvLayoutOfContract ==
    \A k \in DOMAIN analyzeCommands :
      ArgvOfContract(analyzeCommands[k].args, PlannedCommands[k],
                     Split(PlannedCommands[k].args, " "),
                     IncludesInOrder(PlannedCommands[k]),
                     CommonFlagsOf(analyzeCommands[k]), ExtraArgs)

\* C12 as amended: the arguments of every AnalyzeCommand are the tokens of
\* the compile fragments, the include flags, the define flags, the source and
\* the log flag, then the common flags (analysis only, quiet, log format,
\* plugin, then the optional ruleset, ruleset directory and external header
\* flags) and last the extra arguments.
C12_ArgvLayoutOfCode ==
    \A k \in DOMAIN analyzeCommands :
      /\ ArgsOrdered(analyzeCommands[k].args, PlannedCommands[k],
                     Split(PlannedCommands[k].args, " "),
                     IncludesInOrder(PlannedCommands[k]),
                     CommonFlagsOf(analyzeCommands[k]) \o ExtraArgs)
      /\ CommonFlagsLaidOut(CommonFlagsOf(analyzeCommands[k]))

\* C12 witness: a command with includes and defines whose common flags hold
\* the ruleset flag, the ruleset directory flag and the external header flags
C12_EveryOptionalFlag ==
    \E k \in DOMAIN analyzeCommands :
      /\ Len(CommonFlagsOf(analyzeCommands[k])) = 8
      /\ IncludesInOrder(PlannedCommands[k]) # <<>>
      /\ PlannedCommands[k].defines # <<>>

\* The flag of the i-th include among the arguments of the k-th command.
IncludeArg(k, i) ==
    analyzeCommands[k].args[Len(ArgStringToArray(PlannedCommands[k].args)) + i]

\* C13: with the ignoreSystemHeaders input 'true' an include is passed as
\* /external:I when it is marked system and as /I otherwise; with the input
\* 'false' every include is passed as /I.
C13_IncludeFlagForm ==
    \A k \in DOMAIN analyzeCommands :
      \A i \in DOMAIN IncludesInOrder(PlannedCommands[k]) :
        IncludeArg(k, i)
          = (IF GetInput("ignoreSystemHeaders") = TrueText
                  /\ IncludesInOrder(PlannedCommands[k])[i].isSystem
               THEN FlagExternalInclude
               ELSE FlagInclude)
            \o IncludesInOrder(PlannedCommands[k])[i].path

\* C15: the constructor of CompilerCommandOptions fails with the error about
\* ignoredIncludePaths only when the ignoredIncludePaths input is not empty.
C15_OptionsErrorNeedsIgnoredIncludePaths ==
    error = "IgnoredIncludePathsRequireIgnoreSystemHeaders"
      => GetInput("ignoredIncludePaths") # <<>>

(***************************************************************************)
(* When the common values are computed                                     *)
(***************************************************************************)

\* A compile command of the language of a toolchain with this compiler exists.
PathUsed(path) ==
    \E t \in DOMAIN toolchainMap :
      /\ toolchainMap[t].path = path
      /\ \E c \in DOMAIN compileCommands :
           compileCommands[c].language = toolchainMap[t].language

\* The compiler paths of the resolved toolchains.
ToolchainPaths == {toolchainMap[t].path : t \in DOMAIN toolchainMap}

\* C14: the common values of a compiler are computed (with the lookups and
\* the run of the script, and with the failures these may raise) only for a
\* toolchain whose language some compile command has.
C14_ComputedOnlyWhenUsed ==
    \A i \in DOMAIN computed : PathUsed(computed[i].path)

\* C14 as amended: the common values of every resolved toolchain are computed
\* before the first AnalyzeCommand is assembled, whether a compile command
\* uses the toolchain or not.
C14_ComputedForEveryToolchain ==
    /\ pc = "common" => analyzeCommands = <<>>
    /\ {computed[i].path : i \in DOMAIN computed} \subseteq ToolchainPaths
    /\ (pc \in {"assemble", "checkPlan", "exec"} \/ analyzeCommands # <<>>)
         => /\ {computed[i].path : i \in DOMAIN computed} = ToolchainPaths
            /\ DOMAIN commonArgsMap = ToolchainPaths
            /\ DOMAIN commonEnvMap = ToolchainPaths

\* C14 witness: commands were assembled after the script was run for a
\* compiler that no compile command uses
C14_UnusedToolchainComputed ==
    /\ analyzeCommands # <<>>
    /\ \E i \in DOMAIN computed : computed[i].vcvars /\ ~PathUsed(computed[i].path)

=============================================================================
